---- MODULE Spec2Model ----
(***************************************************************************)
(* Stripe-pattern text hiding (src/src/{utils,encode,decode,preprocess,    *)
(* main}.py).  encode_image blends a brightness-driven line image with a   *)
(* key stripe pattern whose phase is shifted under the message ink and     *)
(* saves the result with the stripe period and stripe type as PNG text     *)
(* metadata; decode_image regenerates the key pattern from that metadata   *)
(* and returns the contrast-stretched absolute difference.                 *)
(*                                                                         *)
(* Images are records [h, w, px] with px a function on (0..h-1) \X         *)
(* (0..w-1), indexed <<y, x>> as the arrays of the source are.  Floating   *)
(* point intermediates are modelled by exact rationals (numerator and      *)
(* denominator); the amplitude is a pair <<num, den>>.                     *)
(***************************************************************************)
EXTENDS Integers, Sequences, FiniteSets, TLC

VARIABLES pc, args, K, K_shifted, line_image, E, file, dec, thick

vars == <<pc, args, K, K_shifted, line_image, E, file, dec, thick>>

(***************************************************************************)
(* Bounds of the model.                                                    *)
(***************************************************************************)
MaxH == 2
MaxW == 4
MaxKeyWidth == 20
MaxThickness == 3
MaxBrightnessIndex == 34

(***************************************************************************)
(* Arithmetic helpers: the float -> integer conversions of the source.     *)
(***************************************************************************)
Min(a, b) == IF a <= b THEN a ELSE b
Max(a, b) == IF a >= b THEN a ELSE b
Abs(a) == IF a < 0 THEN -a ELSE a

\* floor(n / d) for d > 0
FloorDiv(n, d) == IF n >= 0 THEN n \div d ELSE -(((-n) + d - 1) \div d)

\* C-style cast of the rational n/d (d > 0) to an integer: truncation toward 0
Trunc(n, d) == IF n >= 0 THEN n \div d ELSE -((-n) \div d)

\* cvRound of the rational n/d (d > 0): nearest integer, ties to even
RoundHalfEven(n, d) ==
    LET q == FloorDiv(n, d)
        r == n - q * d
    IN  IF 2 * r < d THEN q
        ELSE IF 2 * r > d THEN q + 1
        ELSE IF q % 2 = 0 THEN q ELSE q + 1

Pixels(h, w) == (0 .. h - 1) \X (0 .. w - 1)

Image(h, w, samples) == [h |-> h, w |-> w, px |-> samples]

NoImage == [h |-> 0, w |-> 0, px |-> [c \in {} |-> 0]]

(***************************************************************************)
(* utils.generate_key_pattern                                              *)
(***************************************************************************)
\* int((255 * (1 + sin(2*pi*r/p))) / 2) for r in 0..p-1, row p of the table
SinTable ==
    << <<127>>,
       <<127, 127>>,
       <<127, 237, 17>>,
       <<127, 255, 127, 0>>,
       <<127, 248, 202, 52, 6>>,
       <<127, 237, 237, 127, 17, 17>>,
       <<127, 227, 251, 182, 72, 3, 27>>,
       <<127, 217, 255, 217, 127, 37, 0, 37>>,
       <<127, 209, 253, 237, 171, 83, 17, 1, 45>>,
       <<127, 202, 248, 248, 202, 127, 52, 6, 6, 52>>,
       <<127, 196, 243, 253, 223, 163, 91, 31, 1, 11, 58>>,
       <<127, 191, 237, 255, 237, 191, 127, 63, 17, 0, 17, 63>> >>

\* a binary key with the exact half period as threshold (x mod p < p/2)
key_column_exact_half(x, p, stripe_type) ==
    IF stripe_type = "binary" THEN (IF 2 * (x % p) < p THEN 255 ELSE 0)
    ELSE IF stripe_type = "sinusoidal" THEN SinTable[p][(x % p) + 1]
    ELSE 0

\* the value every sample of column x gets
key_column(x, p, stripe_type) ==
    IF stripe_type = "binary" THEN (IF (x % p) < p \div 2 THEN 255 ELSE 0)
    ELSE IF stripe_type = "sinusoidal" THEN SinTable[p][(x % p) + 1]
    ELSE 0

generate_key_pattern(height, width, p, stripe_type) ==
    LET col[y \in 0 .. height - 1, x \in 0 .. width - 1] == key_column(x, p, stripe_type)
    IN  Image(height, width, col)

(***************************************************************************)
(* utils.generate_shifted_key: warpAffine by [[1,0,shift],[0,1,0]] with    *)
(* BORDER_WRAP, i.e. dst(y, x) = src(y, (x - shift) mod width).            *)
(***************************************************************************)
\* a shift that replicates the border column instead of wrapping
generate_shifted_key_replicate(Kp, shift) ==
    LET moved[y \in 0 .. Kp.h - 1, x \in 0 .. Kp.w - 1] == Kp.px[<<y, Min(Max(x - shift, 0), Kp.w - 1)>>]
    IN  Image(Kp.h, Kp.w, moved)

generate_shifted_key(Kp, shift) ==
    LET moved[y \in 0 .. Kp.h - 1, x \in 0 .. Kp.w - 1] == Kp.px[<<y, (x - shift) % Kp.w>>]
    IN  Image(Kp.h, Kp.w, moved)

(***************************************************************************)
(* cv2.normalize(src, None, alpha, beta, NORM_MINMAX) on 8-bit samples:    *)
(* scale = (dmax - dmin) / (smax - smin), or 0 when the source is          *)
(* constant; shift = dmin - smin * scale; dst = round(src * scale + shift) *)
(* saturated to 0..255.                                                    *)
(***************************************************************************)
SetMin(S) == CHOOSE m \in S : \A v \in S : m <= v
SetMax(S) == CHOOSE m \in S : \A v \in S : m >= v
Saturate(v) == Min(Max(v, 0), 255)

\* a stretch that divides by the source maximum instead of the source range
normalize_minmax_no_offset(img, alpha, beta) ==
    LET vals == {img.px[c] : c \in DOMAIN img.px}
        smax == SetMax(vals)
        dmin == Min(alpha, beta)
        dmax == Max(alpha, beta)
        out[y \in 0 .. img.h - 1, x \in 0 .. img.w - 1] ==
            IF smax > 0
            THEN Saturate(RoundHalfEven(img.px[<<y, x>>] * (dmax - dmin) + dmin * smax, smax))
            ELSE Saturate(dmin)
    IN  Image(img.h, img.w, out)

normalize_minmax(img, alpha, beta) ==
    LET vals == {img.px[c] : c \in DOMAIN img.px}
        smin == SetMin(vals)
        smax == SetMax(vals)
        dmin == Min(alpha, beta)
        dmax == Max(alpha, beta)
        out[y \in 0 .. img.h - 1, x \in 0 .. img.w - 1] ==
            IF smax - smin > 0
            THEN Saturate(RoundHalfEven((img.px[<<y, x>>] - smin) * (dmax - dmin)
                                           + dmin * (smax - smin),
                                        smax - smin))
            ELSE Saturate(dmin)
    IN  Image(img.h, img.w, out)

\* utils.adjust_brightness
adjust_brightness(image, min_val, max_val) == normalize_minmax(image, min_val, max_val)

(***************************************************************************)
(* utils.map_brightness_to_thickness.  The average brightness is the       *)
(* rational avg_num / avg_den (avg_den > 0).                               *)
(***************************************************************************)
\* the opposite polarity: brighter blocks get thinner bars
map_brightness_to_thickness_inverted(avg_num, avg_den, min_thickness, max_thickness, min_brightness, max_brightness) ==
    LET d == avg_den * (max_brightness - min_brightness)
        n == max_thickness * d
             - (avg_num - min_brightness * avg_den) * (max_thickness - min_thickness)
        lo == IF n < min_thickness * d THEN min_thickness * d ELSE n
        cl == IF lo > max_thickness * d THEN max_thickness * d ELSE lo
    IN  Trunc(cl, d)

map_brightness_to_thickness(avg_num, avg_den, min_thickness, max_thickness, min_brightness, max_brightness) ==
    LET d == avg_den * (max_brightness - min_brightness)
        \* thickness = n / d
        n == min_thickness * d
             + (avg_num - min_brightness * avg_den) * (max_thickness - min_thickness)
        \* np.clip(thickness, min_thickness, max_thickness)
        lo == IF n < min_thickness * d THEN min_thickness * d ELSE n
        cl == IF lo > max_thickness * d THEN max_thickness * d ELSE lo
    IN  Trunc(cl, d)

(***************************************************************************)
(* encode.encode_image, the line image: one bar per block of the           *)
(* brightness-adjusted carrier.                                            *)
(***************************************************************************)
RECURSIVE SumPx(_, _)
SumPx(img, cells) ==
    IF cells = {} THEN 0
    ELSE LET c == CHOOSE c \in cells : TRUE
         IN  img.px[c] + SumPx(img, cells \ {c})

\* range(0, n, step)
RangeStep(n, step) == {i \in 0 .. n - 1 : i % step = 0}

\* a slice bound i of a sequence of length n, as Python normalises it
SliceIndex(i, n) == IF i < 0 THEN Max(i + n, 0) ELSE Min(i, n)

\* the indices of seq[start:stop] for a sequence of length n
Slice(start, stop, n) == {i \in 0 .. n - 1 : SliceIndex(start, n) <= i /\ i < SliceIndex(stop, n)}

\* chunk = I_adjusted[y : y + chunk_height, x : x + strip_width]
Chunk(img, x, y, strip_width, chunk_height) ==
    Slice(y, y + chunk_height, img.h) \X Slice(x, x + strip_width, img.w)

block_thickness(I_adjusted, x, y, strip_width, chunk_height, min_thickness, max_thickness) ==
    LET chunk == Chunk(I_adjusted, x, y, strip_width, chunk_height)
    IN  map_brightness_to_thickness(SumPx(I_adjusted, chunk), Cardinality(chunk),
                                    min_thickness, max_thickness, 15, 240)

\* the pixels line_image[y : y + chunk_height, start_x : end_x] = 255 sets
block_bar(I_adjusted, x, y, strip_width, chunk_height, min_thickness, max_thickness) ==
    LET thickness == block_thickness(I_adjusted, x, y, strip_width, chunk_height,
                                     min_thickness, max_thickness)
        start_x == x + FloorDiv(strip_width - thickness, 2)
        end_x == start_x + thickness
    IN  Slice(y, y + chunk_height, I_adjusted.h) \X Slice(start_x, end_x, I_adjusted.w)

make_line_image(I_adjusted, strip_width, chunk_height, min_thickness, max_thickness) ==
    LET drawn == UNION {block_bar(I_adjusted, x, y, strip_width, chunk_height,
                                  min_thickness, max_thickness) :
                            x \in RangeStep(I_adjusted.w, strip_width),
                            y \in RangeStep(I_adjusted.h, chunk_height)}
        sample[y \in 0 .. I_adjusted.h - 1, x \in 0 .. I_adjusted.w - 1] ==
            IF <<y, x>> \in drawn THEN 255 ELSE 0
    IN  Image(I_adjusted.h, I_adjusted.w, sample)

(***************************************************************************)
(* encode.encode_image, the blends.  T is the text mask in samples 0..255  *)
(* (T_normalized = T / 255.0), the amplitude is an / ad.                   *)
(*   E_stripe = K * (1 - T_normalized) + K_shifted * T_normalized          *)
(*   E = clip(line * (1 - amplitude) + E_stripe * amplitude, 0, 255)       *)
(* cast to 8 bits by truncation.                                           *)
(***************************************************************************)
\* 255 * E_stripe at one pixel
stripe_num(k, ks, t) == k * (255 - t) + ks * t

\* a blend with the two weights exchanged
blend_pixel_swapped(line, k, ks, t, an, ad) ==
    LET n == line * an * 255 + stripe_num(k, ks, t) * (ad - an)
        d == 255 * ad
    IN  IF n < 0 THEN 0 ELSE IF n > 255 * d THEN 255 ELSE Trunc(n, d)

\* a blend that takes the unshifted key under the ink as well
blend_pixel_no_ink(line, k, ks, t, an, ad) ==
    LET n == line * (ad - an) * 255 + stripe_num(k, k, t) * an
        d == 255 * ad
    IN  IF n < 0 THEN 0 ELSE IF n > 255 * d THEN 255 ELSE Trunc(n, d)

blend_pixel(line, k, ks, t, an, ad) ==
    LET n == line * (ad - an) * 255 + stripe_num(k, ks, t) * an
        d == 255 * ad
    IN  IF n < 0 THEN 0 ELSE IF n > 255 * d THEN 255 ELSE Trunc(n, d)

blend(line, Kp, Ks, T, amplitude) ==
    LET sample[y \in 0 .. line.h - 1, x \in 0 .. line.w - 1] ==
            blend_pixel(line.px[<<y, x>>], Kp.px[<<y, x>>], Ks.px[<<y, x>>],
                        T.px[<<y, x>>], amplitude[1], amplitude[2])
    IN  Image(line.h, line.w, sample)

(***************************************************************************)
(* The PNG text metadata: str(p) written by encode_image, int(...) read by *)
(* decode_image.  A decimal string is a sequence of digit characters.      *)
(***************************************************************************)
Digits == <<"0", "1", "2", "3", "4", "5", "6", "7", "8", "9">>

RECURSIVE IntToStr(_)
RECURSIVE IntToStr_first_digit(_)
\* a str() that keeps only the leading digit of a number of several digits
IntToStr_first_digit(n) == IF n < 10 THEN <<Digits[n + 1]>> ELSE IntToStr_first_digit(n \div 10)

\* str(n) for n >= 0
IntToStr(n) ==
    IF n < 10 THEN <<Digits[n + 1]>>
    ELSE Append(IntToStr(n \div 10), Digits[(n % 10) + 1])

DigitValue(ch) == CHOOSE d \in 0 .. 9 : Digits[d + 1] = ch

IsDecimal(s) == Len(s) > 0 /\ \A i \in 1 .. Len(s) : \E d \in 0 .. 9 : Digits[d + 1] = s[i]

RECURSIVE StrToInt(_)
\* int(s) for a decimal string s
StrToInt(s) ==
    IF Len(s) = 0 THEN 0
    ELSE 10 * StrToInt(SubSeq(s, 1, Len(s) - 1)) + DigitValue(s[Len(s)])

MetaKeys == {"stripe_period", "stripe_type"}

NoFile == [exists |-> FALSE, pixels |-> NoImage, meta |-> [k \in {} |-> ""]]

\* E_pil.save(output_path, pnginfo=png_metadata)
saved_file(Ep, p, stripe_type) ==
    [exists |-> TRUE,
     pixels |-> Ep,
     meta |-> [k \in MetaKeys |-> IF k = "stripe_period" THEN IntToStr(p) ELSE <<stripe_type>>]]

(***************************************************************************)
(* decode.decode_image                                                     *)
(***************************************************************************)
absdiff(A, B) ==
    LET sample[y \in 0 .. A.h - 1, x \in 0 .. A.w - 1] == Abs(A.px[<<y, x>>] - B.px[<<y, x>>])
    IN  Image(A.h, A.w, sample)

NoDecode ==
    [status |-> "none", error |-> "", p |-> 0, stripe_type |-> "",
     K |-> NoImage, absD |-> NoImage, D |-> NoImage, written |-> FALSE]

\* metadata.get(key, default)
meta_get(meta, key, default) == IF key \in DOMAIN meta THEN meta[key] ELSE default

decode_image(f) ==
    IF ~f.exists
    THEN [NoDecode EXCEPT !.status = "error", !.error = "Could not load image"]
    ELSE IF "stripe_period" \in DOMAIN f.meta /\ ~IsDecimal(f.meta["stripe_period"])
    THEN [NoDecode EXCEPT !.status = "error", !.error = "Could not read metadata"]
    ELSE LET p == IF "stripe_period" \in DOMAIN f.meta
                  THEN StrToInt(f.meta["stripe_period"]) ELSE 10
             stripe_type == meta_get(f.meta, "stripe_type", <<"binary">>)[1]
             Kd == generate_key_pattern(f.pixels.h, f.pixels.w, p, stripe_type)
             D0 == absdiff(f.pixels, Kd)
         IN  [status |-> "ok", error |-> "", p |-> p, stripe_type |-> stripe_type,
              K |-> Kd, absD |-> D0, D |-> normalize_minmax(D0, 0, 255), written |-> FALSE]

\* main.decode_main: the revealed image is written unless decode_image raised
decode_main(f) ==
    LET r == decode_image(f)
    IN  IF r.status = "ok" THEN [r EXCEPT !.written = TRUE] ELSE r

(***************************************************************************)
(* Inputs.  A carrier is a grayscale image; the text mask is what          *)
(* create_text_image rasterises: ink (255) or background (0) per pixel,    *)
(* all background for the empty text.  Both range over the images whose    *)
(* odd rows either repeat or invert row 0.                                 *)
(***************************************************************************)
TwoLevelImages(h, w) ==
    {[h |-> h, w |-> w,
      px |-> [c \in Pixels(h, w) |->
                 IF flip /\ c[1] % 2 = 1 THEN 255 - col[c[2]] ELSE col[c[2]]]] :
        col \in [0 .. w - 1 -> {0, 255}], flip \in BOOLEAN}

load_and_preprocess_image(h, w) == TwoLevelImages(h, w)

create_text_image(h, w) == TwoLevelImages(h, w)

BlankImage(h, w) == [h |-> h, w |-> w, px |-> [c \in Pixels(h, w) |-> 0]]

\* the carriers whose columns alternate between two levels
AlternatingCarriers(h, w) ==
    {c \in load_and_preprocess_image(h, w) :
        \A y \in 0 .. h - 1, x \in 0 .. w - 1 :
            c.px[<<y, x>>] = c.px[<<0, x % 2>>] /\ c.px[<<0, 0>>] = 0}

StripeTypes == {"binary", "sinusoidal", "checker"}
Periods == {2, 4, 10}
KeyPeriods == {1, 2, 3, 4, 5, 6, 10}
Amplitudes == {<<0, 1>>, <<1, 256>>, <<1, 255>>, <<3, 10>>, <<1, 1>>}
StripWidths == {1, 2, 3}
ChunkHeights == {1, 2}
Thicknesses == {0, 1, 2, 3}

NoArgs ==
    [I |-> NoImage, T |-> NoImage, p |-> 0, stripe_type |-> "", amplitude |-> <<0, 1>>,
     strip_width |-> 0, chunk_height |-> 0, min_thickness |-> 0, max_thickness |-> 0,
     height |-> 0, width |-> 0, avg1 |-> 0, avg2 |-> 0]

\* carriers, strips, chunks and thickness ranges vary; empty text, binary stripes
LineArgs ==
    {[NoArgs EXCEPT !.I = I, !.T = BlankImage(I.h, I.w), !.p = 2, !.stripe_type = "binary",
                    !.amplitude = a, !.strip_width = sw, !.chunk_height = ch,
                    !.min_thickness = mn, !.max_thickness = mx] :
        I \in UNION {load_and_preprocess_image(h, w) : h \in 1 .. MaxH, w \in 1 .. MaxW},
        a \in {<<0, 1>>},
        sw \in StripWidths, ch \in ChunkHeights,
        mn \in Thicknesses, mx \in Thicknesses}

\* text masks, periods, stripe types and amplitudes vary
StegoArgs ==
    UNION {{[NoArgs EXCEPT !.I = I, !.T = T, !.p = p, !.stripe_type = st,
                           !.amplitude = a, !.strip_width = 2, !.chunk_height = 2,
                           !.min_thickness = 1, !.max_thickness = 2] :
               I \in AlternatingCarriers(MaxH, w), T \in create_text_image(MaxH, w),
               p \in Periods, st \in StripeTypes, a \in Amplitudes} :
           w \in 1 .. MaxW}

(***************************************************************************)
(* Actions.                                                                *)
(***************************************************************************)
\* encode.encode_image, from the carrier to the saved file
EncodeImage ==
    /\ pc = "start"
    /\ LET height == args.I.h
           width == args.I.w
           I_adjusted == adjust_brightness(args.I, 15, 240)
           Kp == generate_key_pattern(height, width, args.p, args.stripe_type)
           Ks == generate_shifted_key(Kp, args.p \div 2)
           line == make_line_image(I_adjusted, args.strip_width, args.chunk_height,
                                   args.min_thickness, args.max_thickness)
           Ep == blend(line, Kp, Ks, args.T, args.amplitude)
       IN  /\ K' = Kp
           /\ K_shifted' = Ks
           /\ line_image' = line
           /\ E' = Ep
           /\ file' = saved_file(Ep, args.p, args.stripe_type)
    /\ pc' = "encoded"
    /\ UNCHANGED <<args, dec, thick>>

\* the stego file reaches the decoder without some of its text chunks
StripMetadata ==
    /\ pc = "encoded"
    /\ DOMAIN file.meta = MetaKeys
    /\ \E lost \in (SUBSET MetaKeys) \ {{}} :
          file' = [file EXCEPT !.meta = [k \in MetaKeys \ lost |-> file.meta[k]]]
    /\ UNCHANGED <<pc, args, K, K_shifted, line_image, E, dec, thick>>

\* main.decode_main on the file at the output path
DecodeImage ==
    /\ pc \in {"start", "encoded"}
    /\ dec' = decode_main(file)
    /\ pc' = "decoded"
    /\ UNCHANGED <<args, K, K_shifted, line_image, E, file, thick>>

\* utils.generate_key_pattern on its own
GenerateKeyPattern ==
    /\ pc = "key_start"
    /\ K' = generate_key_pattern(args.height, args.width, args.p, args.stripe_type)
    /\ pc' = "key"
    /\ UNCHANGED <<args, K_shifted, line_image, E, file, dec, thick>>

\* utils.generate_shifted_key with the shift encode_image passes
GenerateShiftedKey ==
    /\ pc = "key"
    /\ K_shifted' = generate_shifted_key(K, args.p \div 2)
    /\ pc' = "shifted"
    /\ UNCHANGED <<args, K, line_image, E, file, dec, thick>>

\* utils.map_brightness_to_thickness on two average brightnesses, in halves
MapBrightness ==
    /\ pc = "thick_start"
    /\ thick' = <<map_brightness_to_thickness(args.avg1, 2, args.min_thickness,
                                              args.max_thickness, 15, 240),
                  map_brightness_to_thickness(args.avg2, 2, args.min_thickness,
                                              args.max_thickness, 15, 240)>>
    /\ pc' = "thick"
    /\ UNCHANGED <<args, K, K_shifted, line_image, E, file, dec>>

(***************************************************************************)
(* Specifications.                                                         *)
(***************************************************************************)
InitRest ==
    /\ K = NoImage
    /\ K_shifted = NoImage
    /\ line_image = NoImage
    /\ E = NoImage
    /\ file = NoFile
    /\ dec = NoDecode
    /\ thick = <<0, 0>>

\* encode, then decode
Init ==
    /\ pc = "start"
    /\ args \in StegoArgs
    /\ InitRest

Next == EncodeImage \/ StripMetadata \/ DecodeImage

Spec == Init /\ [][Next]_vars

\* encode alone
InitEncode ==
    /\ pc = "start"
    /\ args \in LineArgs \cup StegoArgs
    /\ InitRest

NextEncode == EncodeImage

SpecEncode == InitEncode /\ [][NextEncode]_vars

\* the key pattern and its shifted twin
InitKey ==
    /\ pc = "key_start"
    /\ args \in {[NoArgs EXCEPT !.height = h, !.width = w, !.p = p, !.stripe_type = st] :
                    h \in 1 .. MaxH, w \in 1 .. MaxKeyWidth, p \in KeyPeriods,
                    st \in StripeTypes}
    /\ InitRest

NextKey == GenerateKeyPattern \/ GenerateShiftedKey

SpecKey == InitKey /\ [][NextKey]_vars

\* the brightness to thickness map; average brightness in halves, in steps of 7.5
BrightnessGrid == {15 * k : k \in 0 .. MaxBrightnessIndex}

InitThickness ==
    /\ pc = "thick_start"
    /\ args \in {[NoArgs EXCEPT !.avg1 = b1, !.avg2 = b2,
                                !.min_thickness = mn, !.max_thickness = mx] :
                    b1 \in BrightnessGrid, b2 \in BrightnessGrid,
                    mn \in 0 .. MaxThickness, mx \in 0 .. MaxThickness}
    /\ InitRest

NextThickness == MapBrightness

SpecThickness == InitThickness /\ [][NextThickness]_vars

(***************************************************************************)
(* Claims.                                                                 *)
(***************************************************************************)
PixelsOf(img) == DOMAIN img.px
Intact == file.exists /\ DOMAIN file.meta = MetaKeys
Supported == {"binary", "sinusoidal"}

\* C1: decoding a stego file that lacks stripe_period and/or stripe_type fails
\* with an error, regenerates no key pattern and writes no revealed image.
C1_MissingMetadataFails ==
    (pc = "decoded" /\ file.exists /\ DOMAIN file.meta # MetaKeys)
        => (dec.status = "error" /\ dec.K = NoImage /\ ~dec.written)

\* the case of C2: the saved file decoded, binary stripes, even period p,
\* width a multiple of p, amplitude in [1/255, 1]
C2_Premise ==
    /\ pc = "decoded" /\ Intact /\ dec.status = "ok"
    /\ args.stripe_type = "binary" /\ args.p % 2 = 0 /\ args.I.w % args.p = 0
    /\ 255 * args.amplitude[1] >= args.amplitude[2]
    /\ args.amplitude[1] <= args.amplitude[2]

\* an ink pixel and a background pixel with the same key and line values
C2_Pair(ink, bg) ==
    /\ K.px[ink] = K.px[bg]
    /\ line_image.px[ink] = line_image.px[bg]
    /\ args.T.px[ink] = 255
    /\ args.T.px[bg] = 0

\* C2: binary stripes, even period p, width a multiple of p, amplitude in
\* [1/255, 1]: of two pixels with the same key value and the same line value,
\* one under ink and one on background, the ink pixel has the strictly larger
\* |E - K| in the decoder.
C2_InkDistinguishable ==
    C2_Premise =>
        \A ink \in PixelsOf(E), bg \in PixelsOf(E) :
            C2_Pair(ink, bg) => dec.absD.px[ink] > dec.absD.px[bg]

C2_Witness ==
    /\ C2_Premise
    /\ args.amplitude = <<1, 255>>
    /\ \E ink \in PixelsOf(E), bg \in PixelsOf(E) :
          C2_Pair(ink, bg) /\ line_image.px[ink] = 255 /\ K.px[ink] = 0

C3_Periods == {2, 4, 6, 10}

\* C3 as claimed: binary key, p in {2,4,6,10}, any width: the key shifted by
\* p/2 differs from the key at every column.
C3_ShiftedDiffersAnyWidth ==
    (pc = "shifted" /\ args.stripe_type = "binary" /\ args.p \in C3_Periods)
        => \A c \in PixelsOf(K) : K_shifted.px[c] # K.px[c]

\* C3 as amended: the shifted key differs from the key at every column
\* x >= p/2, and at every column when the width is a multiple of p.
C3_ShiftedDiffersWidthMultiple ==
    (pc = "shifted" /\ args.stripe_type = "binary" /\ args.p \in C3_Periods)
        => \A c \in PixelsOf(K) :
              (c[2] >= args.p \div 2 \/ args.width % args.p = 0)
                  => K_shifted.px[c] # K.px[c]

C3_Witness ==
    /\ pc = "shifted" /\ args.stripe_type = "binary"
    /\ args.p = 6 /\ args.width = 12 /\ args.height = 2
    /\ K_shifted.px[<<1, 0>>] = 0 /\ K.px[<<1, 0>>] = 255

\* C4 as claimed: binary key, p >= 1: every sample of column x is 255 if
\* x mod p < p/2 (exact half) and 0 otherwise.
C4_BinaryExactHalf ==
    (pc \in {"key", "shifted"} /\ args.stripe_type = "binary")
        => \A c \in PixelsOf(K) :
              K.px[c] = IF 2 * (c[2] % args.p) < args.p THEN 255 ELSE 0

\* C4 as amended: every sample of column x is 255 if x mod p < floor(p/2) and
\* 0 otherwise.
C4_BinaryFloorHalf ==
    (pc \in {"key", "shifted"} /\ args.stripe_type = "binary")
        => /\ K.h = args.height /\ K.w = args.width
           /\ \A c \in PixelsOf(K) :
                 K.px[c] = IF c[2] % args.p < args.p \div 2 THEN 255 ELSE 0

C4_Witness ==
    /\ pc = "key" /\ args.stripe_type = "binary" /\ args.p = 5 /\ args.width >= 10
    /\ K.px[<<0, 6>>] = 255 /\ K.px[<<0, 7>>] = 0

\* C5: with amplitude 0 the encoded image is the line image; with amplitude 1
\* it is the stripe/text blend K*(1-T) + K_shifted*T cast to integer samples.
C5_AmplitudeExtremes ==
    pc = "encoded" =>
        /\ args.amplitude = <<0, 1>> => E = line_image
        /\ args.amplitude = <<1, 1>> =>
              /\ E.h = args.I.h /\ E.w = args.I.w
              /\ \A c \in PixelsOf(E) :
                    E.px[c] = (K.px[c] * (255 - args.T.px[c])
                               + K_shifted.px[c] * args.T.px[c]) \div 255

C5_Witness ==
    /\ pc = "encoded" /\ args.amplitude = <<1, 1>>
    /\ \E c \in PixelsOf(E) :
          args.T.px[c] = 255 /\ K_shifted.px[c] # K.px[c] /\ line_image.px[c] # E.px[c]

\* C6: decoding the file encode_image saved regenerates exactly the key
\* pattern the encoder used (same height, width, period and stripe type).
C6_KeyReproduced ==
    (pc = "decoded" /\ Intact)
        => /\ dec.status = "ok"
           /\ dec.p = args.p /\ dec.stripe_type = args.stripe_type
           /\ dec.K = K

C6_Witness ==
    /\ pc = "decoded" /\ Intact /\ dec.K = K
    /\ args.p = 10 /\ args.stripe_type = "sinusoidal" /\ K.w = MaxW

\* C7: an unsupported stripe kind is rejected; no encoded image is produced
\* or saved.
C7_UnsupportedStripeRejected ==
    (pc # "start" /\ args.stripe_type \notin Supported)
        => (~file.exists /\ E = NoImage)

\* C8: for min_thickness <= max_thickness and the brightness range [15, 240],
\* b1 <= b2 implies thickness(b1) <= thickness(b2).
C8_ThicknessMonotone ==
    (pc = "thick" /\ args.min_thickness <= args.max_thickness /\ args.avg1 <= args.avg2)
        => thick[1] <= thick[2]

C8_Witness ==
    /\ pc = "thick" /\ args.min_thickness < args.max_thickness
    /\ args.avg1 < args.avg2 /\ thick[1] < thick[2]
    /\ args.min_thickness < thick[1] /\ thick[2] < args.max_thickness

\* the bar of the block at column x, row y
C9_Block(x, y) ==
    LET I_adjusted == adjust_brightness(args.I, 15, 240)
        t == block_thickness(I_adjusted, x, y, args.strip_width, args.chunk_height,
                             args.min_thickness, args.max_thickness)
        cols == {c \in 0 .. args.I.w - 1 : x <= c /\ c < x + args.strip_width}
        rows == {r \in 0 .. args.I.h - 1 : y <= r /\ r < y + args.chunk_height}
        start == x + FloorDiv(args.strip_width - t, 2)
        bar == {c \in start .. start + t - 1 : TRUE}
    IN  /\ bar \subseteq cols
        /\ Cardinality(bar) = t
        /\ \A r \in rows, c \in cols :
              line_image.px[<<r, c>>] = IF c \in bar THEN 255 ELSE 0

\* C9: the line image has the carrier's dimensions and every non-empty block
\* holds, inside its own columns, one full-height bar of 255 exactly as wide
\* as the block's thickness, centred in the strip, every other pixel being 0.
C9_CenteredBarInEveryBlock ==
    pc = "encoded" =>
        /\ line_image.h = args.I.h /\ line_image.w = args.I.w
        /\ \A x \in RangeStep(args.I.w, args.strip_width),
              y \in RangeStep(args.I.h, args.chunk_height) : C9_Block(x, y)

\* the values of D = |stego - K| before the stretch
DiffValues == {dec.absD.px[c] : c \in PixelsOf(dec.absD)}

\* C10 as claimed: the revealed image maps the minimal difference to 0 and
\* the maximal difference to 255, so it always holds both a 0 and a 255.
C10_StretchHasBothExtremes ==
    (pc = "decoded" /\ dec.status = "ok")
        => /\ \A c \in PixelsOf(dec.D) :
                 /\ dec.absD.px[c] = SetMin(DiffValues) => dec.D.px[c] = 0
                 /\ dec.absD.px[c] = SetMax(DiffValues) => dec.D.px[c] = 255
           /\ \E c \in PixelsOf(dec.D) : dec.D.px[c] = 0
           /\ \E c \in PixelsOf(dec.D) : dec.D.px[c] = 255

\* C10 as amended: when the difference is not constant the minimal difference
\* maps to 0, the maximal to 255 and the order of the differences is kept;
\* when it is constant every revealed pixel is 0.
C10_StretchUnlessConstant ==
    (pc = "decoded" /\ dec.status = "ok")
        => /\ PixelsOf(dec.D) = PixelsOf(file.pixels)
           /\ \A c \in PixelsOf(dec.D) :
                 dec.absD.px[c] = Abs(file.pixels.px[c] - dec.K.px[c])
           /\ IF SetMax(DiffValues) > SetMin(DiffValues)
              THEN \A c \in PixelsOf(dec.D) :
                      /\ dec.absD.px[c] = SetMin(DiffValues) => dec.D.px[c] = 0
                      /\ dec.absD.px[c] = SetMax(DiffValues) => dec.D.px[c] = 255
                      /\ \A e \in PixelsOf(dec.D) :
                            dec.absD.px[c] <= dec.absD.px[e] => dec.D.px[c] <= dec.D.px[e]
              ELSE \A c \in PixelsOf(dec.D) : dec.D.px[c] = 0

C10_Witness ==
    /\ pc = "decoded" /\ dec.status = "ok"
    /\ SetMin(DiffValues) > 0
    /\ SetMax(DiffValues) > SetMin(DiffValues)
    /\ \E c \in PixelsOf(dec.D) : dec.D.px[c] = 0
    /\ \E c \in PixelsOf(dec.D) : dec.D.px[c] = 255

====
